---- MODULE Spec2Model ----
(***************************************************************************)
(* A model of ffffff.h (namespace fff): the traversal algorithms each,     *)
(* map, filter, reject, some, every, none, the generic executor Bloop with *)
(* its policies, the memoizing wrapper Once and the ordered overload       *)
(* chain Fconcat / MakeConcat.                                             *)
(*                                                                         *)
(* Containers are sequences.  A "vector" is any sequence; a "set" is a     *)
(* strictly increasing sequence (std::set iterates in key order).          *)
(***************************************************************************)
EXTENDS Integers, Sequences, FiniteSets, Bags, TLC

VARIABLES cont, kind, func, prev, last,
          flag, memo, counter, fnKind, isVoid, fnBase, pc, rets, inner,
          cands, callArg, callRes

vars == <<cont, kind, func, prev, last,
          flag, memo, counter, fnKind, isVoid, fnBase, pc, rets, inner,
          cands, callArg, callRes>>

travVars == <<cont, kind, func, prev, last>>
onceVars == <<flag, memo, counter, fnKind, isVoid, fnBase, pc, rets, inner>>
concatVars == <<cands, callArg, callRes>>

----------------------------------------------------------------------------
(* Bounds *)

MaxLen == 3
MaxVal == 2
MaxCalls == 3
MaxBase == 1
MaxCands == 3

Values == 0..MaxVal
Modulus == MaxVal + 1

----------------------------------------------------------------------------
(* Containers *)

Kinds == {"vector", "set"}

RECURSIVE SeqsUpTo(_)
SeqsUpTo(n) ==
    IF n = 0 THEN {<<>>}
    ELSE LET S == SeqsUpTo(n - 1)
         IN  S \cup {Append(s, v) : s \in {t \in S : Len(t) = n - 1}, v \in Values}

IsSorted(s) == \A i \in 1..(Len(s) - 1) : s[i] < s[i + 1]

Vectors == SeqsUpTo(MaxLen)
Sets == {s \in Vectors : IsSorted(s)}

\* tmf::BackPushable<C>: C has push_back (us_tmf.h is not part of the sources)
BackPushable(k) == k = "vector"
\* tmf::Insertable<C>: C has insert(value)
Insertable(k) == k = "set"

\* std::vector::push_back
push_back(c, v) == Append(c, v)

\* std::set::insert(value): keeps key order, ignores a key already present
insert(c, v) ==
    IF \E i \in 1..Len(c) : c[i] = v THEN c
    ELSE LET lo == SelectSeq(c, LAMBDA x : x < v)
             hi == SelectSeq(c, LAMBDA x : x > v)
         IN  lo \o <<v>> \o hi

----------------------------------------------------------------------------
(* The callables handed to the algorithms.                                 *)
(*   twice : [](int x) { return (2 * x) % Modulus; }                       *)
(*   isOdd : [](int x) { return x % 2; }                                   *)
(*   succ  : [](int x) { return (x + 1) % Modulus; }                       *)
(*   bump  : [](int &x) { x = (x + 1) % Modulus; }      (returns nothing)  *)

Lambdas == {"twice", "isOdd", "succ", "bump"}

Void == "void"

\* the value the lambda returns for argument x
LambdaRet(name, x) ==
    CASE name = "twice" -> (2 * x) % Modulus
      [] name = "isOdd" -> x % 2
      [] name = "succ"  -> (x + 1) % Modulus
      [] name = "bump"  -> Void

\* the value the argument object holds after the lambda ran on it
LambdaMut(name, x) == IF name = "bump" THEN (x + 1) % Modulus ELSE x

\* A callable is a lambda, possibly wrapped by std::not_fn.
Fn(name) == [name |-> name, neg |-> FALSE]

\* std::not_fn(func)
not_fn(fo) == [name |-> fo.name, neg |-> ~fo.neg]

ByRef(fo) == fo.name = "bump"
ReturnsValue(fo) == fo.name # "bump"

\* conversion of a returned value to bool
ToBool(v) == v # 0

\* the value of the call fo(x); a not_fn wrapper returns !f(x), a bool (0 or 1)
Invoke(fo, x) ==
    IF fo.neg
    THEN (IF ToBool(LambdaRet(fo.name, x)) THEN 0 ELSE 1)
    ELSE LambdaRet(fo.name, x)

\* the value the element holds after the call fo(x)
Effect(fo, x) == LambdaMut(fo.name, x)

----------------------------------------------------------------------------
(* Return values.  store says which storage the returned container is:     *)
(* "none" for a void return, "fresh" for a container returned by value,    *)
(* "c" for a reference to the caller's container.                          *)

RetVoid == [store |-> "none", val |-> <<>>]
RetValue(v) == [store |-> "fresh", val |-> v]
RetBool(b) == [store |-> "fresh", val |-> <<b>>]

----------------------------------------------------------------------------
(* Data policies and execution policies.  The executor works on a small    *)
(* heap: slot c is the caller's container, slot ret the local the data     *)
(* policy created.  A data policy yields the slot that `ret` is bound to.  *)

\* IdentityAt<0>: forwards its first argument, the caller's container
IdentityAt0(h, fo) == [loc |-> "c", heap |-> h]

DefaultValue == 0

\* PreallocCont: C<U>(cont.size()), value-initialised elements
PreallocCont(c, fo) == [i \in 1..Len(c) |-> DefaultValue]

\* NewCont: Cont()
NewCont(c, fo) == <<>>

NewDataPolicy(policy, h, fo) ==
    CASE policy = "IdentityAt0"  -> IdentityAt0(h, fo)
      [] policy = "PreallocCont" -> [loc |-> "ret", heap |-> [h EXCEPT !.ret = PreallocCont(h.c, fo)]]
      [] policy = "NewCont"      -> [loc |-> "ret", heap |-> [h EXCEPT !.ret = NewCont(h.c, fo)]]

\* PushPolicy appending at the wrong end
PushPolicy_AtFront(k, res_cont, val) ==
    IF BackPushable(k) THEN <<val>> \o res_cont
    ELSE insert(res_cont, val)

\* PushExecution::PushPolicy / Filter::PushPolicy: push_back when the
\* container has it, insert otherwise
PushPolicy(k, res_cont, val) ==
    IF BackPushable(k) THEN push_back(res_cont, val)
    ELSE insert(res_cont, val)

\* MapExecution: *it_u = func(*it_t) over the input, u and t may be one slot
RECURSIVE MapExecutionLoop(_, _, _, _, _)
MapExecutionLoop(h, u, t, fo, it) ==
    IF it > Len(h[t]) THEN h
    ELSE MapExecutionLoop([h EXCEPT ![u][it] = Invoke(fo, h[t][it])], u, t, fo, it + 1)

MapExecution(h, u, t, fo) == MapExecutionLoop(h, u, t, fo, 1)

\* PushExecution: for (t : var_cont) if (func(t)) PushPolicy()(res_cont, t)
RECURSIVE PushExecutionLoop(_, _, _, _, _, _)
PushExecutionLoop(k, h, r, v, fo, it) ==
    IF it > Len(h[v]) THEN h
    ELSE PushExecutionLoop(k,
            IF ToBool(Invoke(fo, h[v][it]))
            THEN [h EXCEPT ![r] = PushPolicy(k, h[r], h[v][it])]
            ELSE h,
            r, v, fo, it + 1)

PushExecution(k, h, r, v, fo) == PushExecutionLoop(k, h, r, v, fo, 1)

ExecutionPolicy(exec, k, h, r, fo) ==
    CASE exec = "MapExecution"  -> MapExecution(h, r, "c", fo)
      [] exec = "PushExecution" -> PushExecution(k, h, r, "c", fo)

\* Bloop<ANewDataPolicy, AnExecutionPolicy>::operator(): the return type is
\* auto, so the container `ret` is bound to is returned by value
Bloop(policy, exec, k, c, fo) ==
    LET nd == NewDataPolicy(policy, [c |-> c, ret |-> <<>>], fo)
        h1 == ExecutionPolicy(exec, k, nd.heap, nd.loc, fo)
    IN  [cont |-> h1.c, ret |-> RetValue(h1[nd.loc])]

BloopEach(k, c, fo) == Bloop("IdentityAt0", "MapExecution", k, c, fo)
BloopMap(k, c, fo) == Bloop("PreallocCont", "MapExecution", k, c, fo)
BloopFilter(k, c, fo) == Bloop("NewCont", "PushExecution", k, c, fo)

----------------------------------------------------------------------------
(* The public algorithms *)

\* Each::operator(): std::ranges::for_each(cont, func), returns void
RECURSIVE EachLoop(_, _, _)
EachLoop(c, fo, it) ==
    IF it > Len(c) THEN c
    ELSE EachLoop([c EXCEPT ![it] = Effect(fo, c[it])], fo, it + 1)

Each(c, fo) == [cont |-> EachLoop(c, fo, 1), ret |-> RetVoid]

\* Map::operator()
RECURSIVE MapLoop(_, _, _, _)
MapLoop(c, ret, fo, it) ==
    IF it > Len(c) THEN ret
    ELSE MapLoop(c, [ret EXCEPT ![it] = Invoke(fo, c[it])], fo, it + 1)

\* Map whose loop starts one element late
Map_SkipsFirst(c, fo) == [cont |-> c, ret |-> RetValue(MapLoop(c, PreallocCont(c, fo), fo, 2))]

Map(c, fo) == [cont |-> c, ret |-> RetValue(MapLoop(c, PreallocCont(c, fo), fo, 1))]

\* Filter::operator()
RECURSIVE FilterLoop(_, _, _, _, _)
FilterLoop(k, c, ret, fo, it) ==
    IF it > Len(c) THEN ret
    ELSE FilterLoop(k, c,
            IF ToBool(Invoke(fo, c[it])) THEN PushPolicy(k, ret, c[it]) ELSE ret,
            fo, it + 1)

Filter(k, c, fo) == [cont |-> c, ret |-> RetValue(FilterLoop(k, c, NewCont(c, "copy"), fo, 1))]

\* Reject that forgets std::not_fn
Reject_NoNegation(k, c, fo) == Filter(k, c, fo)

\* Reject::operator()
Reject(k, c, fo) == Filter(k, c, not_fn(fo))

\* LogicMake<func_ret, ret>::operator()
RECURSIVE LogicMakeLoop(_, _, _, _, _)
LogicMakeLoop(func_ret, ret, c, fo, it) ==
    IF it > Len(c) THEN ~ret
    ELSE IF ToBool(Invoke(fo, c[it])) = func_ret THEN ret
    ELSE LogicMakeLoop(func_ret, ret, c, fo, it + 1)

LogicMake(func_ret, ret, c, fo) ==
    [cont |-> c, ret |-> RetBool(LogicMakeLoop(func_ret, ret, c, fo, 1))]

Some(c, fo) == LogicMake(TRUE, TRUE, c, fo)

\* Every instantiated with the wrong return value
Every_WrongRet(c, fo) == LogicMake(FALSE, TRUE, c, fo)

Every(c, fo) == LogicMake(FALSE, FALSE, c, fo)
None(c, fo) == LogicMake(TRUE, FALSE, c, fo)

----------------------------------------------------------------------------
(* The caller of the traversal algorithms.  cont is the caller's container *)
(* of the given kind, func the lambda at hand.  last and prev are the      *)
(* caller's two most recent calls: the operation, the container contents   *)
(* it was given (in) and left (out), and what it returned (ret).           *)

Ops == {"each", "map", "filter", "reject", "some", "every", "none",
        "BloopEach", "BloopMap", "BloopFilter"}

NoRes == [op |-> "no call", in |-> <<>>, out |-> <<>>, ret |-> RetVoid]

Record(op, out) ==
    /\ cont' = out.cont
    /\ last' = [op |-> op, in |-> cont, out |-> out.cont, ret |-> out.ret]
    /\ prev' = last
    /\ UNCHANGED <<kind, func>>
    /\ UNCHANGED <<onceVars, concatVars>>

\* what the constraints and the loop bodies need of the lambda to compile
ReadsOnly == ~ByRef(Fn(func)) /\ ReturnsValue(Fn(func))
Assignable == kind = "vector"

CallEach ==
    /\ (ByRef(Fn(func)) => Assignable)
    /\ Record("each", Each(cont, Fn(func)))

CallMap ==
    /\ ReadsOnly /\ Assignable
    /\ Record("map", Map(cont, Fn(func)))

CallFilter ==
    /\ ReadsOnly
    /\ Record("filter", Filter(kind, cont, Fn(func)))

CallReject ==
    /\ ReadsOnly
    /\ Record("reject", Reject(kind, cont, Fn(func)))

CallSome ==
    /\ ReadsOnly
    /\ Record("some", Some(cont, Fn(func)))

CallEvery ==
    /\ ReadsOnly
    /\ Record("every", Every(cont, Fn(func)))

CallNone ==
    /\ ReadsOnly
    /\ Record("none", None(cont, Fn(func)))

CallBloopEach ==
    /\ ReadsOnly /\ Assignable
    /\ Record("BloopEach", BloopEach(kind, cont, Fn(func)))

CallBloopMap ==
    /\ ReadsOnly /\ Assignable
    /\ Record("BloopMap", BloopMap(kind, cont, Fn(func)))

CallBloopFilter ==
    /\ ReadsOnly
    /\ Record("BloopFilter", BloopFilter(kind, cont, Fn(func)))

----------------------------------------------------------------------------
(* Once.  w = once(fn) is a cell (f, flag, memo); Once::operator() builds  *)
(* Once_nv when fn returns a value and Once_v when it returns void.        *)
(* The wrapped fn counts its invocations in counter and returns            *)
(* fnBase + counter:                                                       *)
(*   total     : [&] { ++counter; return fnBase + counter; }               *)
(*   throws    : the same, but its first invocation throws                 *)
(*   reentrant : the same, but it calls w() before it returns              *)
(* operator() hands control to fn between `flag = true` and the store to   *)
(* memo, so a call is two steps with pc = "in_f" in between.               *)

FnKinds == {"total", "throws", "reentrant"}

\* memo is not initialised by the constructors: any value may be read from it
Indeterminate == 0..(MaxBase + 1)

NoInner == [seen |-> FALSE, val |-> 0]

Returned(v) == [how |-> "value", val |-> v]
ReturnedVoid == [how |-> "void", val |-> 0]
Thrown == [how |-> "throw", val |-> 0]

\* the value fn returns on the invocation that is running
FnResult == fnBase + counter

FnThrows == fnKind = "throws" /\ counter = 1

\* fn is ready to return: a reentrant fn has made its call of w()
FnDone == ~FnThrows /\ (fnKind = "reentrant" => inner.seen)

\* Once_nv::operator() that never sets the flag
Once_nv_Call_FlagNotSet ==
    /\ pc = "idle" /\ ~isVoid /\ Len(rets) < MaxCalls
    /\ IF flag
       THEN /\ rets' = Append(rets, Returned(memo))
            /\ UNCHANGED <<flag, memo, counter, pc>>
       ELSE /\ counter' = counter + 1
            /\ pc' = "in_f"
            /\ UNCHANGED <<flag, memo, rets>>
    /\ UNCHANGED <<fnKind, isVoid, fnBase, inner>>
    /\ UNCHANGED <<travVars, concatVars>>

\* Once_nv::operator(), up to the call of f
Once_nv_Call ==
    /\ pc = "idle" /\ ~isVoid /\ Len(rets) < MaxCalls
    /\ IF flag
       THEN /\ rets' = Append(rets, Returned(memo))
            /\ UNCHANGED <<flag, memo, counter, pc>>
       ELSE /\ flag' = TRUE
            /\ counter' = counter + 1
            /\ pc' = "in_f"
            /\ UNCHANGED <<memo, rets>>
    /\ UNCHANGED <<fnKind, isVoid, fnBase, inner>>
    /\ UNCHANGED <<travVars, concatVars>>

\* Once_nv::operator(), f returned: return memo = f()
Once_nv_Return ==
    /\ pc = "in_f" /\ ~isVoid /\ FnDone
    /\ memo' = FnResult
    /\ rets' = Append(rets, Returned(FnResult))
    /\ pc' = "idle"
    /\ UNCHANGED <<flag, counter, fnKind, isVoid, fnBase, inner>>
    /\ UNCHANGED <<travVars, concatVars>>

\* Once_nv::operator(), f threw: the exception leaves operator()
Once_nv_Throw ==
    /\ pc = "in_f" /\ ~isVoid /\ FnThrows
    /\ rets' = Append(rets, Thrown)
    /\ pc' = "idle"
    /\ UNCHANGED <<flag, memo, counter, fnKind, isVoid, fnBase, inner>>
    /\ UNCHANGED <<travVars, concatVars>>

\* Once_v::operator(), up to the call of f
Once_v_Call ==
    /\ pc = "idle" /\ isVoid /\ Len(rets) < MaxCalls
    /\ IF flag
       THEN /\ rets' = Append(rets, ReturnedVoid)
            /\ UNCHANGED <<flag, counter, pc>>
       ELSE /\ flag' = TRUE
            /\ counter' = counter + 1
            /\ pc' = "in_f"
            /\ UNCHANGED rets
    /\ UNCHANGED <<memo, fnKind, isVoid, fnBase, inner>>
    /\ UNCHANGED <<travVars, concatVars>>

\* Once_v::operator(), f returned
Once_v_Return ==
    /\ pc = "in_f" /\ isVoid /\ FnDone
    /\ rets' = Append(rets, ReturnedVoid)
    /\ pc' = "idle"
    /\ UNCHANGED <<flag, memo, counter, fnKind, isVoid, fnBase, inner>>
    /\ UNCHANGED <<travVars, concatVars>>

\* Once_v::operator(), f threw
Once_v_Throw ==
    /\ pc = "in_f" /\ isVoid /\ FnThrows
    /\ rets' = Append(rets, Thrown)
    /\ pc' = "idle"
    /\ UNCHANGED <<flag, memo, counter, fnKind, isVoid, fnBase, inner>>
    /\ UNCHANGED <<travVars, concatVars>>

\* The call of w() that a reentrant fn makes from inside the first
\* evaluation: operator() again, which finds flag set and returns memo
\* (or just returns, for Once_v).
ReentrantCall ==
    /\ pc = "in_f" /\ fnKind = "reentrant" /\ ~inner.seen
    /\ flag
    /\ inner' = [seen |-> TRUE, val |-> IF isVoid THEN 0 ELSE memo]
    /\ UNCHANGED <<flag, memo, counter, fnKind, isVoid, fnBase, pc, rets>>
    /\ UNCHANGED <<travVars, concatVars>>

----------------------------------------------------------------------------
(* Fconcat / MakeConcat.  A candidate callable accepts a set of argument   *)
(* types; candidate i called with an argument of type t returns <<i, t>>.  *)
(* cands[i] is the set of argument types candidate i accepts.              *)

ArgTypes == {"int", "string", "pointer"}

Candidate(i, acc) == [tag |-> "fn", idx |-> i, acc |-> acc]

\* Fconcat(f_1, f_2)
Fconcat(f_1, f_2) == [tag |-> "Fconcat", f_1 |-> f_1, f_2 |-> f_2]

\* MakeConcat::operator(): Fconcat(f1, f2) for two callables,
\* Fconcat(f1, operator()(f2, fp...)) for more
RECURSIVE MakeConcat(_)
MakeConcat(fs) ==
    IF Len(fs) = 2 THEN Fconcat(fs[1], fs[2])
    ELSE Fconcat(fs[1], MakeConcat(Tail(fs)))

\* std::invocable<F, Args...>: for an Fconcat, one of its two operator()
\* overloads has its constraint satisfied
RECURSIVE Invocable(_, _)
Invocable(f, t) ==
    IF f.tag = "fn" THEN t \in f.acc
    ELSE \/ Invocable(f.f_1, t)
         \/ (~Invocable(f.f_1, t) /\ Invocable(f.f_2, t))

\* Fconcat whose second overload is preferred
RECURSIVE FconcatCall_SecondFirst(_, _)
FconcatCall_SecondFirst(f, t) ==
    IF f.tag = "fn" THEN [log |-> <<f.idx>>, val |-> <<f.idx, t>>]
    ELSE IF Invocable(f.f_2, t) THEN FconcatCall_SecondFirst(f.f_2, t)
    ELSE FconcatCall_SecondFirst(f.f_1, t)

\* the call f(args...): log lists the candidates that ran, val is the result
RECURSIVE FconcatCall(_, _)
FconcatCall(f, t) ==
    IF f.tag = "fn" THEN [log |-> <<f.idx>>, val |-> <<f.idx, t>>]
    ELSE IF Invocable(f.f_1, t) THEN FconcatCall(f.f_1, t)
    ELSE FconcatCall(f.f_2, t)

Chain == MakeConcat([i \in 1..Len(cands) |-> Candidate(i, cands[i])])

NoCall == [log |-> <<>>, val |-> <<>>]

\* g(args...) for an argument type some overload accepts
CallConcat ==
    /\ \E t \in ArgTypes :
          /\ Invocable(Chain, t)
          /\ callArg' = t
          /\ callRes' = FconcatCall(Chain, t)
    /\ UNCHANGED cands
    /\ UNCHANGED <<travVars, onceVars>>

----------------------------------------------------------------------------
(* Specifications *)

TravIdle ==
    /\ cont = <<>> /\ kind = "vector" /\ func = "twice"
    /\ prev = NoRes /\ last = NoRes

OnceIdle ==
    /\ flag = FALSE /\ memo = 0 /\ counter = 0 /\ fnKind = "total"
    /\ isVoid = FALSE /\ fnBase = 0 /\ pc = "idle" /\ rets = <<>>
    /\ inner = NoInner

ConcatIdle ==
    /\ cands = <<{}, {}>> /\ callArg = "none" /\ callRes = NoCall

\* the caller holds a container and a lambda
InitTrav ==
    /\ kind \in Kinds
    /\ cont \in (IF kind = "set" THEN Sets ELSE Vectors)
    /\ func \in Lambdas
    /\ prev = NoRes /\ last = NoRes
    /\ OnceIdle /\ ConcatIdle

\* w = once(fn): Once_nv(f) / Once_v(f), flag(false), memo left as it is
InitOnce ==
    /\ fnKind \in FnKinds
    /\ isVoid \in BOOLEAN
    /\ fnBase \in 0..MaxBase
    /\ flag = FALSE
    /\ memo \in (IF isVoid THEN {0} ELSE Indeterminate)
    /\ counter = 0 /\ pc = "idle" /\ rets = <<>> /\ inner = NoInner
    /\ TravIdle /\ ConcatIdle

\* g = make_concat(f1, ..., fn)
InitConcat ==
    /\ \E n \in 2..MaxCands : cands \in [1..n -> SUBSET ArgTypes]
    /\ callArg = "none" /\ callRes = NoCall
    /\ TravIdle /\ OnceIdle

NextTrav ==
    \/ CallEach
    \/ CallMap
    \/ CallFilter
    \/ CallReject
    \/ CallSome
    \/ CallEvery
    \/ CallNone
    \/ CallBloopEach
    \/ CallBloopMap
    \/ CallBloopFilter

NextOnce ==
    \/ Once_nv_Call
    \/ Once_nv_Return
    \/ Once_nv_Throw
    \/ Once_v_Call
    \/ Once_v_Return
    \/ Once_v_Throw
    \/ ReentrantCall

NextConcat == CallConcat

SpecTrav == InitTrav /\ [][NextTrav]_vars
SpecOnce == InitOnce /\ [][NextOnce]_vars
SpecConcat == InitConcat /\ [][NextConcat]_vars

----------------------------------------------------------------------------
(* Properties of the traversal algorithms (SpecTrav) *)

\* the lambda at hand, as the claims read it: the value it produces of x
Produces(x) == LambdaRet(func, x)
Satisfies(x) == ToBool(LambdaRet(func, x))

Range(s) == {s[i] : i \in 1..Len(s)}

BagOf(s) == [v \in Range(s) |-> Cardinality({i \in 1..Len(s) : s[i] = v})]

\* a is b with some elements left out, the others in b's order
RECURSIVE IsSubsequence(_, _)
IsSubsequence(a, b) ==
    IF a = <<>> THEN TRUE
    ELSE IF b = <<>> THEN FALSE
    ELSE IF Head(a) = Head(b) THEN IsSubsequence(Tail(a), Tail(b))
    ELSE IsSubsequence(a, Tail(b))

\* the caller's recent calls, older first
Held == <<prev, last>>

\* C1: map(c, f) is a new container of c's length whose i-th element is
\* f(c[i]), for every index i.
C1_MapLengthAndElements ==
    \A n \in 1..2 :
        LET r == Held[n]
        IN  r.op = "map" =>
              /\ r.ret.store = "fresh"
              /\ r.out = r.in
              /\ Len(r.ret.val) = Len(r.in)
              /\ \A i \in 1..Len(r.in) : r.ret.val[i] = Produces(r.in[i])

C1_Witness ==
    /\ last.op = "map"
    /\ Len(last.in) >= 2
    /\ last.in[1] # last.in[2]
    /\ last.ret.val[1] # last.ret.val[2]
    /\ last.ret.val # last.in

\* C2: every element of filter(c, p) satisfies p, no element of c that fails
\* p is in filter(c, p), and when the result is filled by push_back the
\* elements of filter(c, p) are in the relative order they have in c.
C2_FilterSubsequence ==
    \A n \in 1..2 :
        LET r == Held[n]
        IN  r.op = "filter" =>
              /\ \A i \in 1..Len(r.ret.val) : Satisfies(r.ret.val[i])
              /\ \A i \in 1..Len(r.in) :
                    ~Satisfies(r.in[i]) => r.in[i] \notin Range(r.ret.val)
              /\ Range(r.ret.val) \subseteq Range(r.in)
              /\ BackPushable(kind) => IsSubsequence(r.ret.val, r.in)

C2_Witness ==
    /\ last.op = "filter"
    /\ BackPushable(kind)
    /\ Len(last.ret.val) >= 2
    /\ last.ret.val[1] > last.ret.val[2]
    /\ Len(last.ret.val) < Len(last.in)

\* the value applying the lambda to an element x produces: what it returns,
\* or what it leaves in x when it returns nothing
PostValue(x) == IF ReturnsValue(Fn(func)) THEN LambdaRet(func, x) ELSE LambdaMut(func, x)

\* C3: each(c, f) returns a container that is the storage of c, and after
\* the call every position i of c holds the value f produced of the element
\* that was at position i.
C3_EachReturnsSameContainer ==
    \A n \in 1..2 :
        LET r == Held[n]
        IN  r.op = "each" =>
              /\ r.ret.store = "c"
              /\ Len(r.out) = Len(r.in)
              /\ \A i \in 1..Len(r.in) : r.out[i] = PostValue(r.in[i])

\* the two recent calls were op1 and op2, in either order, on equal contents
Both(a, b, op1, op2) ==
    /\ a.op = op1 /\ b.op = op2
    /\ a.in = b.in

\* C7: filter(c, p) and reject(c, p) partition c: together they hold the
\* elements of c, each as many times as c does.
C7_FilterRejectPartition ==
    \A m, n \in 1..2 :
        LET f == Held[m]
            r == Held[n]
        IN  Both(f, r, "filter", "reject") =>
              /\ BagOf(f.ret.val) (+) BagOf(r.ret.val) = BagOf(f.in)
              /\ \A v \in Range(r.ret.val) : ~Satisfies(v)

C7_Witness ==
    /\ Both(prev, last, "filter", "reject")
    /\ prev.ret.val # <<>>
    /\ last.ret.val # <<>>
    /\ Len(last.in) >= 3

AnySatisfies(c) == \E i \in 1..Len(c) : Satisfies(c[i])
AllSatisfy(c) == \A i \in 1..Len(c) : Satisfies(c[i])

\* C8: some(c, p) iff an element of c satisfies p, every(c, p) iff all do,
\* none(c, p) = not some(c, p); on the empty container some is false, every
\* true and none true.
C8_Quantifiers ==
    /\ \A n \in 1..2 :
          LET r == Held[n]
          IN  /\ r.op = "some" =>
                    /\ r.ret.val[1] = AnySatisfies(r.in)
                    /\ (r.in = <<>> => r.ret.val[1] = FALSE)
              /\ r.op = "every" =>
                    /\ r.ret.val[1] = AllSatisfy(r.in)
                    /\ (r.in = <<>> => r.ret.val[1] = TRUE)
              /\ r.op = "none" =>
                    /\ r.ret.val[1] = ~AnySatisfies(r.in)
                    /\ (r.in = <<>> => r.ret.val[1] = TRUE)
    /\ \A m, n \in 1..2 :
          Both(Held[m], Held[n], "some", "none") =>
              Held[n].ret.val[1] = ~Held[m].ret.val[1]

C8_Witness ==
    /\ Both(prev, last, "some", "none")
    /\ prev.ret.val[1] = TRUE
    /\ last.ret.val[1] = FALSE
    /\ Len(last.in) >= 2 /\ ~Satisfies(last.in[1])

SameOutcome(pub, blp) ==
    \A m, n \in 1..2 :
        Both(Held[m], Held[n], pub, blp) =>
            /\ Held[m].ret = Held[n].ret
            /\ Held[m].out = Held[n].out

\* C9: the public each, map and filter return the same result and leave c in
\* the same final state as BloopEach, BloopMap and BloopFilter.
C9_PublicIsBloop ==
    /\ SameOutcome("each", "BloopEach")
    /\ SameOutcome("map", "BloopMap")
    /\ SameOutcome("filter", "BloopFilter")

\* what does hold of the pairs: map and filter are their Bloop instances
C9_MapFilterAreBloop ==
    /\ SameOutcome("map", "BloopMap")
    /\ SameOutcome("filter", "BloopFilter")

----------------------------------------------------------------------------
(* Properties of Once (SpecOnce) *)

LastReturn == rets[Len(rets)]

\* C4: when fn throws during the first call of w(), the error reaches the
\* caller and the flag stays unset, so that the next call invokes fn again.
C4_ThrowLeavesFlagUnset ==
    (pc = "idle" /\ rets # <<>> /\ LastReturn = Thrown) => ~flag

\* C5: for a fn that does not throw, any n >= 1 calls of w() invoke fn
\* exactly once and every call returns the value fn returned on that
\* invocation; for a void fn only the first call has an effect.
C5_InvokedOnceSameValue ==
    fnKind # "throws" =>
        /\ counter <= 1
        /\ (pc = "idle" /\ rets # <<>>) =>
              /\ counter = 1
              /\ \A i \in 1..Len(rets) :
                    rets[i] = IF isVoid THEN ReturnedVoid ELSE Returned(fnBase + 1)

C5_Witness ==
    /\ fnKind = "total" /\ ~isVoid
    /\ pc = "idle" /\ Len(rets) >= 3
    /\ memo = fnBase + 1 /\ counter = 1

\* C10: flag set implies memo holds the value fn returned, also for a call of
\* w() made from inside fn during the first evaluation, so every invocation
\* that finds the flag set returns fn's result.
C10_FlagImpliesCached ==
    (~isVoid /\ fnKind # "throws") =>
        /\ (pc = "idle" /\ flag) => memo = fnBase + 1
        /\ inner.seen => inner.val = fnBase + 1

----------------------------------------------------------------------------
(* Properties of Fconcat (SpecConcat) *)

Acceptors(t) == {i \in 1..Len(cands) : t \in cands[i]}

Lowest(S) == CHOOSE i \in S : \A j \in S : i <= j

\* C6: g = make_concat(f1, ..., fn) accepts what some candidate accepts, and
\* g(args) invokes exactly the lowest-indexed candidate that accepts args and
\* returns its result.
C6_FirstAcceptorWins ==
    /\ \A t \in ArgTypes : Invocable(Chain, t) <=> Acceptors(t) # {}
    /\ callArg # "none" =>
          /\ Acceptors(callArg) # {}
          /\ callRes.log = <<Lowest(Acceptors(callArg))>>
          /\ callRes.val = <<Lowest(Acceptors(callArg)), callArg>>

C6_Witness ==
    /\ callArg # "none"
    /\ Len(cands) >= 3
    /\ callArg \in cands[1] /\ callArg \in cands[2]
    /\ callRes.val = <<1, callArg>>

====
